---- MODULE Spec2Model ----
(***************************************************************************)
(* Model of the MoCo MCP server's aggregation core: the time utilities     *)
(* (timeUtils.ts), the get_activities tool (activitiesTools.ts), the       *)
(* get_user_presences tool (userPresencesTools.ts) and the                 *)
(* get_user_holidays and get_user_sick_days tools (userHolidaysTools.ts,   *)
(* userSickDaysTools.ts), the request methods and fetchAllPages of         *)
(* MocoApiService (mocoApi.ts), the error messages (errorHandler.ts) and   *)
(* the tools/call dispatcher (index.ts).                                   *)
(*                                                                         *)
(* Numbers.  JavaScript numbers are modelled as exact fixed-point values:  *)
(* an hour count is an integer number of ticks, TicksPerHour ticks to the  *)
(* hour.  One tick is 1/30000 h, so 0.0001 h (3 ticks), 0.01 h (300 ticks) *)
(* and one minute (500 ticks) are all exact.  Binary floating-point        *)
(* representation error is not modelled.                                   *)
(*                                                                         *)
(* Exceptions.  A function that throws yields the value of the thrown      *)
(* Error (ThrownNegative); the value propagates through every structure    *)
(* built from it, and the try/catch of the tool handler tests for it.      *)
(*                                                                         *)
(* Output.  A handler's reply keeps the summary structure it renders (and, *)
(* for presences, the numbers formatPresencesSummary prints); the text     *)
(* layout of the reports, the display names of projects and tasks, the     *)
(* schedule comments and the optional projectId filter passed through to   *)
(* the API are left out.                                                   *)
(***************************************************************************)
EXTENDS Integers, Sequences, FiniteSets, TLC

TicksPerHour == 60 * 500

\* 0.01 h, the resolution of roundHours
Cent == TicksPerHour \div 100

\* One minute
Minute == TicksPerHour \div 60

(***************************************************************************)
(* timeUtils.ts                                                            *)
(***************************************************************************)

\* Math.floor(x) for the rational x = num / den, den > 0
MathFloor(num, den) == num \div den

\* Math.round(x) for the rational x = num / den, den > 0: the integer
\* nearest to x, halves towards +Infinity, i.e. floor(x + 1/2)
MathRound(num, den) == (2 * num + den) \div (2 * den)

\* The Error thrown by formatHoursToHHMM
ThrownNegative == "Error: Hours cannot be negative"

\* String.prototype.padStart(2, '0') on the decimal rendering of n
PadStart2(s) == IF Len(s) < 2 THEN "0" \o s ELSE s

\* formatHoursToHHMM with the minutes === 60 branch left out
formatHoursToHHMM_NoCarry(hours) ==
    IF hours < 0
    THEN ThrownNegative
    ELSE LET wholeHours == MathFloor(hours, TicksPerHour)
             minutes    == MathRound((hours - wholeHours * TicksPerHour) * 60, TicksPerHour)
         IN  ToString(wholeHours) \o ":" \o PadStart2(ToString(minutes))

\* formatHoursToHHMM without the hours < 0 guard
formatHoursToHHMM_NoGuard(hours) ==
    LET wholeHours == MathFloor(hours, TicksPerHour)
        minutes    == MathRound((hours - wholeHours * TicksPerHour) * 60, TicksPerHour)
    IN  IF minutes = 60
        THEN ToString(wholeHours + 1) \o ":00"
        ELSE ToString(wholeHours) \o ":" \o PadStart2(ToString(minutes))

formatHoursToHHMM(hours) ==
    IF hours < 0
    THEN ThrownNegative
    ELSE LET wholeHours == MathFloor(hours, TicksPerHour)
             minutes    == MathRound((hours - wholeHours * TicksPerHour) * 60, TicksPerHour)
         IN  IF minutes = 60
             THEN ToString(wholeHours + 1) \o ":00"
             ELSE ToString(wholeHours) \o ":" \o PadStart2(ToString(minutes))

RECURSIVE SumFrom(_, _)
SumFrom(hours, i) ==
    IF i > Len(hours) THEN 0 ELSE hours[i] + SumFrom(hours, i + 1)

\* hours.reduce((total, current) => total + current, 0)
sumHours(hours) == SumFrom(hours, 1)

\* Math.round(hours * 100) / 100, in ticks
roundHours(hours) == MathRound(hours * 100, TicksPerHour) * Cent

createTimeFormat(hours) ==
    [hours          |-> roundHours(hours),
     hoursFormatted |-> formatHoursToHHMM(hours)]

(***************************************************************************)
(* JavaScript Map: a sequence of [key, val] entries with distinct keys,    *)
(* in insertion order (the iteration order of Map.keys / Map.entries).     *)
(***************************************************************************)
MapHas(m, k) == \E i \in DOMAIN m : m[i].key = k

MapIdx(m, k) == CHOOSE i \in DOMAIN m : m[i].key = k

MapGet(m, k) == m[MapIdx(m, k)].val

\* Map.set that puts a new key in front of the existing ones
MapSet_Prepend(m, k, v) ==
    IF MapHas(m, k)
    THEN [m EXCEPT ![MapIdx(m, k)] = [key |-> k, val |-> v]]
    ELSE <<[key |-> k, val |-> v]>> \o m

\* Map.set: replaces the value of an existing key in place, appends a new key
MapSet(m, k, v) ==
    IF MapHas(m, k)
    THEN [m EXCEPT ![MapIdx(m, k)] = [key |-> k, val |-> v]]
    ELSE Append(m, [key |-> k, val |-> v])

MapKeys(m) == [i \in DOMAIN m |-> m[i].key]

(***************************************************************************)
(* Dates.  An ISO date string "YYYY-MM-DD" is the tuple <<YYYY, MM, DD>>   *)
(* of its zero-padded fields; the UTF-16 code unit order of                *)
(* Array.prototype.sort() on such strings is the lexicographic order of    *)
(* the tuples.                                                             *)
(***************************************************************************)
DateLess(a, b) ==
    \/ a[1] < b[1]
    \/ a[1] = b[1] /\ a[2] < b[2]
    \/ a[1] = b[1] /\ a[2] = b[2] /\ a[3] < b[3]

\* Inserts key k into the ascending sequence s
RECURSIVE SortedInsert(_, _)
SortedInsert(s, k) ==
    IF s = <<>> THEN <<k>>
    ELSE IF DateLess(k, Head(s)) THEN <<k>> \o s
    ELSE <<Head(s)>> \o SortedInsert(Tail(s), k)

RECURSIVE SortFrom(_, _, _)
SortFrom(keys, i, acc) ==
    IF i > Len(keys) THEN acc
    ELSE SortFrom(keys, i + 1, SortedInsert(acc, keys[i]))

\* Array.from(map.keys()) with the .sort() call left out
ArraySort_Unsorted(keys) == keys

\* Array.from(map.keys()).sort() on distinct date strings
ArraySort(keys) == SortFrom(keys, 1, <<>>)

(***************************************************************************)
(* activitiesTools.ts                                                      *)
(* An Activity is [date, project, task, hours]: project and task are the   *)
(* ids activity.project.id and activity.task.id.                           *)
(***************************************************************************)

\* activitiesByDate / presencesByDate: Map<date, record[]>, lines 75-82
RECURSIVE GroupByDate(_, _, _)
GroupByDate(records, i, byDate) ==
    IF i > Len(records) THEN byDate
    ELSE LET r  == records[i]
             m1 == IF ~MapHas(byDate, r.date) THEN MapSet(byDate, r.date, <<>>) ELSE byDate
             m2 == MapSet(m1, r.date, Append(MapGet(m1, r.date), r))
         IN  GroupByDate(records, i + 1, m2)

\* projectsMap of createDailySummary with `hours = activity.hours` in place of
\* `hours += activity.hours` at line 175
RECURSIVE BuildProjectsMap_Overwrite(_, _, _)
BuildProjectsMap_Overwrite(activities, i, projectsMap) ==
    IF i > Len(activities) THEN projectsMap
    ELSE LET a  == activities[i]
             m1 == IF ~MapHas(projectsMap, a.project)
                   THEN MapSet(projectsMap, a.project, <<>>)
                   ELSE projectsMap
             tasks  == MapGet(m1, a.project)
             tasks1 == IF ~MapHas(tasks, a.task) THEN MapSet(tasks, a.task, 0) ELSE tasks
             tasks2 == MapSet(tasks1, a.task, a.hours)
         IN  BuildProjectsMap_Overwrite(activities, i + 1, MapSet(m1, a.project, tasks2))

\* projectsMap of createDailySummary: Map<projectId, Map<taskId, hours>>
RECURSIVE BuildProjectsMap(_, _, _)
BuildProjectsMap(activities, i, projectsMap) ==
    IF i > Len(activities) THEN projectsMap
    ELSE LET a  == activities[i]
             m1 == IF ~MapHas(projectsMap, a.project)
                   THEN MapSet(projectsMap, a.project, <<>>)
                   ELSE projectsMap
             tasks  == MapGet(m1, a.project)
             tasks1 == IF ~MapHas(tasks, a.task) THEN MapSet(tasks, a.task, 0) ELSE tasks
             tasks2 == MapSet(tasks1, a.task, MapGet(tasks1, a.task) + a.hours)
         IN  BuildProjectsMap(activities, i + 1, MapSet(m1, a.project, tasks2))

TaskActivitySummary(entry) ==
    [taskId         |-> entry.key,
     hours          |-> entry.val,
     hoursFormatted |-> createTimeFormat(entry.val).hoursFormatted]

ProjectActivitySummary(entry) ==
    LET tasks == [j \in DOMAIN entry.val |-> TaskActivitySummary(entry.val[j])]
        projectTotalHours == sumHours([j \in DOMAIN tasks |-> tasks[j].hours])
    IN  [projectId    |-> entry.key,
         tasks        |-> tasks,
         projectTotal |-> createTimeFormat(projectTotalHours)]

createDailySummary(date, activities) ==
    LET projectsMap == BuildProjectsMap(activities, 1, <<>>)
        projects    == [i \in DOMAIN projectsMap |-> ProjectActivitySummary(projectsMap[i])]
        dailyTotalHours == sumHours([i \in DOMAIN projects |-> projects[i].projectTotal.hours])
    IN  [date       |-> date,
         projects   |-> projects,
         dailyTotal |-> createTimeFormat(dailyTotalHours)]

\* project.tasks.forEach of aggregateActivities, lines 113-121
RECURSIVE AccumulateTasks(_, _, _)
AccumulateTasks(tasks, j, taskTotals) ==
    IF j > Len(tasks) THEN taskTotals
    ELSE LET task == tasks[j]
             m1 == IF ~MapHas(taskTotals, task.taskId)
                   THEN MapSet(taskTotals, task.taskId, 0)
                   ELSE taskTotals
         IN  AccumulateTasks(tasks, j + 1,
                 MapSet(m1, task.taskId, MapGet(m1, task.taskId) + task.hours))

\* The hours of one day's project added to its cross-day total, line 111,
\* taken from the unrounded task hours instead of projectTotal.hours
ProjectHoursOfDay_Raw(project) ==
    sumHours([j \in DOMAIN project.tasks |-> project.tasks[j].hours])

\* The hours of one day's project added to its cross-day total, line 111
ProjectHoursOfDay(project) == project.projectTotal.hours

\* dailySummary.projects.forEach of aggregateActivities with one task map
\* shared by all projects: every project accumulates under the first key
RECURSIVE AccumulateProjects_SharedTasks(_, _, _)
AccumulateProjects_SharedTasks(projects, i, projectTotalsMap) ==
    IF i > Len(projects) THEN projectTotalsMap
    ELSE LET project == projects[i]
             key == IF projectTotalsMap = <<>> THEN project.projectId
                    ELSE projectTotalsMap[1].key
             m1 == IF ~MapHas(projectTotalsMap, key)
                   THEN MapSet(projectTotalsMap, key, [totalHours |-> 0, tasks |-> <<>>])
                   ELSE projectTotalsMap
             projectTotal == MapGet(m1, key)
             updated == [totalHours |-> projectTotal.totalHours + ProjectHoursOfDay(project),
                         tasks      |-> AccumulateTasks(project.tasks, 1, projectTotal.tasks)]
         IN  AccumulateProjects_SharedTasks(projects, i + 1, MapSet(m1, key, updated))

\* dailySummary.projects.forEach of aggregateActivities, lines 101-122
RECURSIVE AccumulateProjects(_, _, _)
AccumulateProjects(projects, i, projectTotalsMap) ==
    IF i > Len(projects) THEN projectTotalsMap
    ELSE LET project == projects[i]
             m1 == IF ~MapHas(projectTotalsMap, project.projectId)
                   THEN MapSet(projectTotalsMap, project.projectId,
                               [totalHours |-> 0, tasks |-> <<>>])
                   ELSE projectTotalsMap
             projectTotal == MapGet(m1, project.projectId)
             updated == [totalHours |-> projectTotal.totalHours + ProjectHoursOfDay(project),
                         tasks      |-> AccumulateTasks(project.tasks, 1, projectTotal.tasks)]
         IN  AccumulateProjects(projects, i + 1, MapSet(m1, project.projectId, updated))

\* sortedDates.forEach of aggregateActivities, lines 95-123
RECURSIVE AccumulateDays(_, _, _, _)
AccumulateDays(sortedDates, activitiesByDate, i, acc) ==
    IF i > Len(sortedDates) THEN acc
    ELSE LET date == sortedDates[i]
             dailySummary == createDailySummary(date, MapGet(activitiesByDate, date))
         IN  AccumulateDays(sortedDates, activitiesByDate, i + 1,
                 [dailySummaries   |-> Append(acc.dailySummaries, dailySummary),
                  projectTotalsMap |-> AccumulateProjects(dailySummary.projects, 1,
                                                          acc.projectTotalsMap)])

\* One entry of projectTotals, lines 126-135
ProjectTotalEntry(entry) ==
    [projectId |-> entry.key,
     total     |-> createTimeFormat(entry.val.totalHours),
     tasks     |-> [j \in DOMAIN entry.val.tasks |->
                       [taskId |-> entry.val.tasks[j].key,
                        total  |-> createTimeFormat(entry.val.tasks[j].val)]]]

\* grandTotalHours, line 138, summed over the input records instead of the
\* daily totals
GrandTotalHours_FromRecords(activities, dailySummaries) ==
    sumHours([i \in DOMAIN activities |-> activities[i].hours])

\* grandTotalHours, line 138
GrandTotalHours(activities, dailySummaries) ==
    sumHours([i \in DOMAIN dailySummaries |-> dailySummaries[i].dailyTotal.hours])

aggregateActivities(activities, startDate, endDate) ==
    LET activitiesByDate == GroupByDate(activities, 1, <<>>)
        sortedDates == ArraySort(MapKeys(activitiesByDate))
        acc == AccumulateDays(sortedDates, activitiesByDate, 1,
                              [dailySummaries |-> <<>>, projectTotalsMap |-> <<>>])
        projectTotals == [i \in DOMAIN acc.projectTotalsMap |->
                             ProjectTotalEntry(acc.projectTotalsMap[i])]
    IN  [startDate      |-> startDate,
         endDate        |-> endDate,
         dailySummaries |-> acc.dailySummaries,
         projectTotals  |-> projectTotals,
         grandTotal     |-> createTimeFormat(GrandTotalHours(activities, acc.dailySummaries))]

\* TRUE iff building the activity summary threw: some createTimeFormat call
\* evaluated while building it reached the throw of formatHoursToHHMM
ActivitySummaryThrew(summary) ==
    \/ summary.grandTotal.hoursFormatted = ThrownNegative
    \/ \E i \in DOMAIN summary.projectTotals :
          \/ summary.projectTotals[i].total.hoursFormatted = ThrownNegative
          \/ \E j \in DOMAIN summary.projectTotals[i].tasks :
                summary.projectTotals[i].tasks[j].total.hoursFormatted = ThrownNegative
    \/ \E i \in DOMAIN summary.dailySummaries :
          \/ summary.dailySummaries[i].dailyTotal.hoursFormatted = ThrownNegative
          \/ \E j \in DOMAIN summary.dailySummaries[i].projects :
                LET project == summary.dailySummaries[i].projects[j]
                IN  \/ project.projectTotal.hoursFormatted = ThrownNegative
                    \/ \E k \in DOMAIN project.tasks :
                          project.tasks[k].hoursFormatted = ThrownNegative

(***************************************************************************)
(* userPresencesTools.ts                                                   *)
(* A UserPresence is [date, from, to].  A clock time "HH:MM" is the pair   *)
(* <<HH, MM>> that split(':').map(Number) yields; an unset `to` is Unset.  *)
(***************************************************************************)
Unset == <<>>

\* calculateHoursFromTimes without the midnight branch of lines 130-132
calculateHoursFromTimes_NoWrap(fromTime, toTime) ==
    IF fromTime = Unset \/ toTime = Unset
    THEN 0
    ELSE LET fromTotalMinutes == fromTime[1] * 60 + fromTime[2]
             toTotalMinutes   == toTime[1] * 60 + toTime[2]
         IN  (toTotalMinutes - fromTotalMinutes) * Minute

\* split() of an unset time throws a TypeError, which the catch of lines
\* 136-139 turns into 0
calculateHoursFromTimes(fromTime, toTime) ==
    IF fromTime = Unset \/ toTime = Unset
    THEN 0
    ELSE LET fromTotalMinutes == fromTime[1] * 60 + fromTime[2]
             toTotalMinutes   == toTime[1] * 60 + toTime[2]
             diffMinutes == IF toTotalMinutes >= fromTotalMinutes
                            THEN toTotalMinutes - fromTotalMinutes
                            ELSE (24 * 60) - fromTotalMinutes + toTotalMinutes
         IN  diffMinutes * Minute

\* presences.filter(presence => presence.from && presence.to)
CompletedPresences(presences) ==
    SelectSeq(presences, LAMBDA p : p.from # Unset /\ p.to # Unset)

\* createDailyPresenceSummary that counts an open presence up to 23:59
\* instead of filtering it out
createDailyPresenceSummary_OpenUntilMidnight(date, presences) ==
    LET totalHours == sumHours([i \in DOMAIN presences |->
                          calculateHoursFromTimes(presences[i].from,
                              IF presences[i].to = Unset THEN <<23, 59>>
                              ELSE presences[i].to)])
    IN  [date                |-> date,
         totalHours          |-> roundHours(totalHours),
         totalHoursFormatted |-> createTimeFormat(totalHours).hoursFormatted]

createDailyPresenceSummary(date, presences) ==
    LET completedPresences == CompletedPresences(presences)
        totalHours == sumHours([i \in DOMAIN completedPresences |->
                          calculateHoursFromTimes(completedPresences[i].from,
                                                  completedPresences[i].to)])
    IN  [date                |-> date,
         totalHours          |-> roundHours(totalHours),
         totalHoursFormatted |-> createTimeFormat(totalHours).hoursFormatted]

aggregatePresences(presences, startDate, endDate) ==
    LET presencesByDate == GroupByDate(presences, 1, <<>>)
        sortedDates == ArraySort(MapKeys(presencesByDate))
        dailySummaries == [i \in DOMAIN sortedDates |->
                              createDailyPresenceSummary(sortedDates[i],
                                  MapGet(presencesByDate, sortedDates[i]))]
        grandTotalHours == sumHours([i \in DOMAIN dailySummaries |->
                                        dailySummaries[i].totalHours])
    IN  [startDate      |-> startDate,
         endDate        |-> endDate,
         dailySummaries |-> dailySummaries,
         grandTotal     |-> createTimeFormat(grandTotalHours)]

\* The JavaScript number hours / divisor: not finite when the divisor is 0
Divide(hours, divisor) ==
    IF divisor = 0
    THEN [finite |-> FALSE, num |-> 0, den |-> 1]
    ELSE [finite |-> TRUE, num |-> hours, den |-> divisor]

\* roundHours of a quotient: Math.round(q * 100) / 100, NaN stays NaN
roundHoursOfQuotient(q) ==
    [finite |-> q.finite,
     hours  |-> MathRound(q.num * 100, TicksPerHour * q.den) * Cent]

\* formatHoursToHHMM of a number that may be NaN: NaN passes the hours < 0
\* guard and is rendered by the template string
formatHoursToHHMMOfNumber(n) ==
    IF n.finite THEN formatHoursToHHMM(n.hours) ELSE "NaN:NaN"

\* The statistics block with the working days counted as the days that
\* have presence hours, still guarded by dailySummaries.length > 0
PresenceStatistics_DaysWithHours(summary) ==
    IF Len(summary.dailySummaries) > 0
    THEN LET workingDays == Cardinality({i \in DOMAIN summary.dailySummaries :
                                summary.dailySummaries[i].totalHours > 0})
             averageHoursPerDay ==
                 roundHoursOfQuotient(Divide(summary.grandTotal.hours, workingDays))
         IN  [shown              |-> TRUE,
              workingDays        |-> workingDays,
              averageHoursPerDay |-> averageHoursPerDay,
              averageFormatted   |-> formatHoursToHHMMOfNumber(averageHoursPerDay)]
    ELSE [shown |-> FALSE]

\* The statistics block of formatPresencesSummary, lines 163-172
PresenceStatistics(summary) ==
    IF Len(summary.dailySummaries) > 0
    THEN LET workingDays == Len(summary.dailySummaries)
             averageHoursPerDay ==
                 roundHoursOfQuotient(Divide(summary.grandTotal.hours, workingDays))
         IN  [shown              |-> TRUE,
              workingDays        |-> workingDays,
              averageHoursPerDay |-> averageHoursPerDay,
              averageFormatted   |-> formatHoursToHHMMOfNumber(averageHoursPerDay)]
    ELSE [shown |-> FALSE]

\* What formatPresencesSummary prints: one line per day, the grand total
\* and the statistics
formatPresencesSummary(summary) ==
    [daily      |-> [i \in DOMAIN summary.dailySummaries |->
                        [date      |-> summary.dailySummaries[i].date,
                         hours     |-> summary.dailySummaries[i].totalHours,
                         formatted |-> summary.dailySummaries[i].totalHoursFormatted]],
     grandTotal |-> summary.grandTotal,
     statistics |-> PresenceStatistics(summary)]

PresenceSummaryThrew(summary) ==
    \/ summary.grandTotal.hoursFormatted = ThrownNegative
    \/ \E i \in DOMAIN summary.dailySummaries :
          summary.dailySummaries[i].totalHoursFormatted = ThrownNegative

(***************************************************************************)
(* dateUtils.ts                                                            *)
(* A string that does not match /^\d{4}-\d{2}-\d{2}$/ is NotIsoFormat.     *)
(***************************************************************************)
NotIsoFormat == <<>>

IsLeapYear(y) == (y % 4 = 0 /\ y % 100 # 0) \/ y % 400 = 0

DaysInMonth(y, m) ==
    IF m = 2 THEN (IF IsLeapYear(y) THEN 29 ELSE 28)
    ELSE IF m \in {4, 6, 9, 11} THEN 30 ELSE 31

\* The regex test, then new Date(...) is a valid time value whose
\* toISOString().slice(0, 10) is the input again: the fields name a real
\* calendar day (an out-of-range day either parses to NaN or rolls over to
\* another date, and both are rejected)
isValidDateFormat(dateString) ==
    /\ dateString # NotIsoFormat
    /\ dateString[2] \in 1..12
    /\ dateString[3] \in 1..DaysInMonth(dateString[1], dateString[2])

\* validateDateRange without the start <= end comparison
validateDateRange_FormatOnly(startDate, endDate) ==
    /\ isValidDateFormat(startDate)
    /\ isValidDateFormat(endDate)

validateDateRange(startDate, endDate) ==
    /\ isValidDateFormat(startDate)
    /\ isValidDateFormat(endDate)
    /\ (startDate = endDate \/ DateLess(startDate, endDate))

(***************************************************************************)
(* errorHandler.ts and the request methods of MocoApiService               *)
(* A message is its text together with what the code looks for in it: the  *)
(* substrings of Needles it includes and the status code that              *)
(* /HTTP (\d+):/ captures (<<>> without a match).  An Error is its class   *)
(* and its message.  What fetch and response.json() do is a FetchOutcome:  *)
(* "ok" with the parsed data, "http" with a status that is not ok, or      *)
(* "rejected" with the error thrown.                                       *)
(***************************************************************************)
Needles == {"fetch", "Network error", "HTTP", "Resource not found"}

Message(text, includes, httpMatch) ==
    [text |-> text, includes |-> includes, httpMatch |-> httpMatch]

\* `HTTP ${response.status}: ${response.statusText}`
HttpStatusMessage(status, statusText) ==
    Message("HTTP " \o ToString(status) \o ": " \o statusText, {"HTTP"}, <<status>>)

\* createHttpErrorMessage with only 500 among the server-error cases
createHttpErrorMessage_Only500(statusCode) ==
    CASE statusCode = 400 ->
            Message("Invalid parameters. Please check your inputs.", {}, <<>>)
      [] statusCode = 401 ->
            Message("API authentication failed. Please check MOCO_API_KEY.", {}, <<>>)
      [] statusCode = 403 ->
            Message("Access denied. Please check your API permissions.", {}, <<>>)
      [] statusCode = 404 ->
            Message("Resource not found. Please check the provided IDs.",
                    {"Resource not found"}, <<>>)
      [] statusCode = 422 ->
            Message("Invalid data. Please check date formats and value ranges.", {}, <<>>)
      [] statusCode = 429 ->
            Message("API limit reached. Please try again in a few seconds.", {}, <<>>)
      [] statusCode = 500 ->
            Message("MoCo server error. Please try again later.", {}, <<>>)
      [] OTHER ->
            Message("HTTP error " \o ToString(statusCode) \o ". Please contact support.",
                    {"HTTP"}, <<>>)

createHttpErrorMessage(statusCode) ==
    CASE statusCode = 400 ->
            Message("Invalid parameters. Please check your inputs.", {}, <<>>)
      [] statusCode = 401 ->
            Message("API authentication failed. Please check MOCO_API_KEY.", {}, <<>>)
      [] statusCode = 403 ->
            Message("Access denied. Please check your API permissions.", {}, <<>>)
      [] statusCode = 404 ->
            Message("Resource not found. Please check the provided IDs.",
                    {"Resource not found"}, <<>>)
      [] statusCode = 422 ->
            Message("Invalid data. Please check date formats and value ranges.", {}, <<>>)
      [] statusCode = 429 ->
            Message("API limit reached. Please try again in a few seconds.", {}, <<>>)
      [] statusCode \in {500, 502, 503, 504} ->
            Message("MoCo server error. Please try again later.", {}, <<>>)
      [] OTHER ->
            Message("HTTP error " \o ToString(statusCode) \o ". Please contact support.",
                    {"HTTP"}, <<>>)

handleMocoApiError(error) ==
    IF /\ error.type = "TypeError"
       /\ ("fetch" \in error.message.includes \/ "Network error" \in error.message.includes)
    THEN Message("Network error accessing MoCo API. Please check your internet connection.",
                 {"Network error"}, <<>>)
    ELSE IF /\ error.message.text # ""
            /\ "HTTP" \in error.message.includes
            /\ error.message.httpMatch # <<>>
    THEN createHttpErrorMessage(error.message.httpMatch[1])
    ELSE IF error.message.text # ""
    THEN Message("MoCo API error: " \o error.message.text,
                 error.message.includes, error.message.httpMatch)
    ELSE Message("Unknown error accessing MoCo API.", {}, <<>>)

\* Response headers without X-Page, X-Total and X-Per-Page
NoHeaders == [xPage |-> <<>>, xTotal |-> <<>>, xPerPage |-> <<>>]

\* What the try block of makeRequest throws for an outcome that is not ok
ThrownInRequest(outcome) ==
    IF outcome.kind = "http"
    THEN [type |-> "Error", message |-> HttpStatusMessage(outcome.status, outcome.statusText)]
    ELSE outcome.error

\* makeRequest: the parsed data, or throw new Error(handleMocoApiError(error))
makeRequest(outcome) ==
    IF outcome.kind = "ok"
    THEN [threw |-> FALSE, value |-> outcome.data]
    ELSE [threw |-> TRUE,
          error |-> [type |-> "Error",
                     message |-> handleMocoApiError(ThrownInRequest(outcome))]]

\* makeRequestWithHeaders: the parsed data and the response headers, or the
\* same Error
makeRequestWithHeaders(outcome) ==
    IF outcome.kind = "ok"
    THEN [threw |-> FALSE, value |-> [data |-> outcome.data, headers |-> outcome.headers]]
    ELSE [threw |-> TRUE,
          error |-> [type |-> "Error",
                     message |-> handleMocoApiError(ThrownInRequest(outcome))]]

\* getUserHolidays with a catch that answers every failure with []
getUserHolidays_CatchAll(outcome) ==
    LET request == makeRequest(outcome)
    IN  IF request.threw THEN [threw |-> FALSE, value |-> <<>>] ELSE request

getUserHolidays(outcome) ==
    LET request == makeRequest(outcome)
    IN  IF request.threw /\ "Resource not found" \in request.error.message.includes
        THEN [threw |-> FALSE, value |-> <<>>]
        ELSE request

\* getTakenHolidays and getTakenSickDays: every failure of the /schedules
\* request is caught and answered with [].  The data of an ok outcome stands
\* for the schedules that pass the assignment filter.
getTakenSchedules(outcome) ==
    LET request == makeRequest(outcome)
    IN  IF request.threw THEN [threw |-> FALSE, value |-> <<>>] ELSE request

\* Math.ceil(num / den) for den > 0
MathCeil(num, den) == (num + den - 1) \div den

\* hasMorePages with currentPage <= totalPages
HasMorePages_Inclusive(currentPage, headers) ==
    IF headers.xPage # <<>> /\ headers.xTotal # <<>> /\ headers.xPerPage # <<>>
    THEN currentPage <= MathCeil(headers.xTotal[1], headers.xPerPage[1])
    ELSE FALSE

\* The hasMorePages of fetchAllPages after the reply to page currentPage:
\* a header is <<>> when absent, else <<its parseInt value>>
HasMorePages(currentPage, headers) ==
    IF headers.xPage # <<>> /\ headers.xTotal # <<>> /\ headers.xPerPage # <<>>
    THEN currentPage < MathCeil(headers.xTotal[1], headers.xPerPage[1])
    ELSE FALSE

\* fetchAllPages that catches the error of a page and returns the items of
\* the pages before it
fetchAllPagesResult_Partial(threw, items, error) ==
    [threw |-> FALSE, value |-> items, error |-> error]

\* How fetchAllPages ends: the Error of the failed page propagates, or
\* return allItems
fetchAllPagesResult(threw, items, error) ==
    IF threw
    THEN [threw |-> TRUE, value |-> <<>>, error |-> error]
    ELSE [threw |-> FALSE, value |-> items, error |-> error]

(***************************************************************************)
(* userHolidaysTools.ts and userSickDaysTools.ts                           *)
(* A schedule is [date, hours, am, pm]: am and pm are "true", "false" or   *)
(* "undefined" (the field is absent).  Day counts use the fixed point of   *)
(* the hours: TicksPerHour ticks are one day.                              *)
(***************************************************************************)
\* hoursToDays of timeUtils: hours / HOURS_PER_DAY
hoursToDays(hours) == hours \div 8

calculateDaysFromSchedule(schedule) ==
    IF schedule.am # "undefined" /\ schedule.pm # "undefined"
    THEN (IF schedule.am = "true" THEN TicksPerHour \div 2 ELSE 0)
         + (IF schedule.pm = "true" THEN TicksPerHour \div 2 ELSE 0)
    ELSE TicksPerHour

\* Inserts entry e behind the entries of the ascending sequence s that are
\* not after it
RECURSIVE InsertByDate(_, _)
InsertByDate(s, e) ==
    IF s = <<>> THEN <<e>>
    ELSE IF DateLess(e.date, Head(s).date) THEN <<e>> \o s
    ELSE <<Head(s)>> \o InsertByDate(Tail(s), e)

RECURSIVE SortByDateFrom(_, _, _)
SortByDateFrom(entries, i, acc) ==
    IF i > Len(entries) THEN acc
    ELSE SortByDateFrom(entries, i + 1, InsertByDate(acc, entries[i]))

\* entries.sort((a, b) => a.date.localeCompare(b.date)): stable
SortByDate(entries) == SortByDateFrom(entries, 1, <<>>)

\* .map(schedule => ({date, days, status, note})) followed by the sort
ProcessSchedules(schedules, status) ==
    SortByDate([i \in DOMAIN schedules |->
                   [date   |-> schedules[i].date,
                    days   |-> calculateDaysFromSchedule(schedules[i]),
                    status |-> status]])

\* reduce((total, holiday) => total + holiday.days, 0)
TotalDays(processed) == sumHours([i \in DOMAIN processed |-> processed[i].days])

createHolidaySummary(takenHolidays, entitlementList, year) ==
    LET processedHolidays == ProcessSchedules(takenHolidays, "taken")
        totalTakenDays == TotalDays(processedHolidays)
        annualEntitlementDays ==
            IF Len(entitlementList) > 0 THEN entitlementList[1].days ELSE 0
        utilizationPercentage ==
            IF annualEntitlementDays > 0
            THEN MathRound(totalTakenDays * 100, annualEntitlementDays)
            ELSE 0
        difference == annualEntitlementDays - totalTakenDays
        remainingDays == IF difference > 0 THEN difference ELSE 0
    IN  [year                  |-> year,
         holidays              |-> processedHolidays,
         totalTakenDays        |-> roundHours(totalTakenDays),
         annualEntitlementDays |-> annualEntitlementDays,
         utilizationPercentage |-> utilizationPercentage,
         remainingDays         |-> roundHours(remainingDays)]

createSickDaysSummary(sickDays, year) ==
    LET processedSickDays == ProcessSchedules(sickDays, "sick")
        totalSickDays == TotalDays(processedSickDays)
    IN  [year                  |-> year,
         holidays              |-> processedSickDays,
         totalTakenDays        |-> MathRound(totalSickDays * 100, TicksPerHour) * Cent,
         annualEntitlementDays |-> 0,
         utilizationPercentage |-> 0,
         remainingDays         |-> 0]

\* The summary lines of formatHolidaysSummary: the taken days, and the
\* entitlement, utilization and remaining lines if they are printed
formatHolidaysSummary(summary) ==
    [noData           |-> FALSE,
     takenDays        |-> summary.totalTakenDays,
     entitlementLines |->
         IF summary.annualEntitlementDays > 0
         THEN <<[entitlement |-> summary.annualEntitlementDays,
                 utilization |-> summary.utilizationPercentage,
                 remaining   |-> summary.remainingDays]>>
         ELSE <<>>]

\* The summary lines of formatHolidaysWithNoData: entitlements[0].days is
\* tested for truthiness
formatHolidaysWithNoData(year, entitlementList) ==
    [noData           |-> TRUE,
     takenDays        |-> 0,
     entitlementLines |->
         IF Len(entitlementList) > 0 /\ entitlementList[1].days # 0
         THEN <<[entitlement |-> entitlementList[1].days,
                 utilization |-> 0,
                 remaining   |-> entitlementList[1].days]>>
         ELSE <<>>]

\* validateYear of dateUtils.ts: currentYear is new Date().getFullYear()
validateYear(year, currentYear) == year >= 2000 /\ year <= currentYear + 1

(***************************************************************************)
(* The server handling one tools/call request.                             *)
(***************************************************************************)
VARIABLES
    pc,        \* "idle", "fetching" (suspended at the await of the fetch), "done"
    tool,      \* name of the tool whose handler runs, "none" before the call
    params,    \* [startDate, endDate] of the request
    allItems,  \* the records fetched so far (allItems of fetchAllPages)
    result,    \* what the handler returned, NoResult before it returns
    tFn,       \* time utility applied to tIn, "none" before the call
    tIn,       \* argument of the time utility
    tOut,      \* what the time utility returned
    entitlements,  \* what getUserHolidays returned to the holidays handler
    failed,    \* the API requests of the handler that failed: endpoint and outcome
    pager,     \* fetchAllPages: its currentPage and hasMorePages, the pages
               \* requested so far, and the server's paginated list
    reqs,      \* two concurrent tools/call requests: each one's own pc,
               \* params, allItems and result
    delivered  \* the records the API has sent in reply to each request

vars == <<pc, tool, params, allItems, result, tFn, tIn, tOut,
          entitlements, failed, pager, reqs, delivered>>

pageVars == <<pager>>

yearVars == <<entitlements, failed>>

twoVars == <<reqs, delivered>>

reqVars == <<pc, tool, params, allItems, result>>

timeVars == <<tFn, tIn, tOut>>

\* Largest number of records the API returns for one request
MaxItems == 3

\* Time utility arguments range over -MaxNegTicks .. MaxTimeTicks ticks
MaxTimeTicks == 61000

MaxNegTicks == 400

NoResult == [kind |-> "none"]

\* No fetchAllPages call is in progress
NoPager == [currentPage |-> 0, hasMorePages |-> FALSE, requested |-> <<>>,
            server |-> [total |-> 0, perPage |-> 0, missing |-> "none"]]

NoParams == [startDate |-> NotIsoFormat, endDate |-> NotIsoFormat]

\* Request arguments: two real days, a day after the end date, a string
\* that is no ISO date, and a day that is not in the calendar
StartDates == {<<2024, 1, 31>>, <<2024, 2, 1>>, <<2024, 2, 2>>, NotIsoFormat}

EndDates == {<<2024, 2, 1>>, <<2024, 2, 30>>}

\* Records the API may return
RecordDates == {<<2024, 1, 31>>, <<2024, 2, 1>>}

\* (project id, task id) of an activity: two tasks of one project, and the
\* same task id under another project
ActivityPaths == {<<1, 1>>, <<1, 2>>, <<2, 1>>}

\* -1 h, 0.004 h, 1.5 h
ActivityHours == {0 - TicksPerHour, 4 * (Cent \div 10), 150 * Cent}

Activities ==
    {[date |-> d, project |-> p[1], task |-> p[2], hours |-> h] :
        d \in RecordDates, p \in ActivityPaths, h \in ActivityHours}

FromTimes == {<<9, 0>>, <<22, 0>>}

\* still open, 17:30, 17:20 (no multiple of 0.01 h after 09:00), 02:15 (the
\* next day after 22:00)
ToTimes == {Unset, <<17, 30>>, <<17, 20>>, <<2, 15>>}

Presences ==
    {[date |-> d, from |-> f, to |-> t] :
        d \in RecordDates, f \in FromTimes, t \in ToTimes}

\* -1 h, 10.1 h, 8.75 h, 23.5 h next to the dense range around 0, 1 and 2 h
TimeInputs ==
    ((0 - MaxNegTicks) .. MaxTimeTicks)
        \cup {0 - TicksPerHour, 1010 * Cent, 875 * Cent, 2350 * Cent}

Init ==
    /\ pc = "idle"
    /\ tool = "none"
    /\ params = NoParams
    /\ allItems = <<>>
    /\ result = NoResult
    /\ tFn = "none"
    /\ tIn = 0
    /\ tOut = "none"
    /\ entitlements = <<>>
    /\ failed = <<>>
    /\ pager = NoPager
    /\ reqs = <<>>
    /\ delivered = <<>>

\* Handler entry up to the await of the fetch: the date range is validated,
\* and only a valid range reaches the API (activitiesTools.ts 35-49,
\* userPresencesTools.ts 28-42)
HandlerEntry(startDate, endDate) ==
    /\ params' = [startDate |-> startDate, endDate |-> endDate]
    /\ IF ~validateDateRange(startDate, endDate)
       THEN /\ result' = [kind |-> "validation",
                          text |-> "Invalid date range: Start date must be before or equal to end date."]
            /\ pc' = "done"
       ELSE /\ result' = result
            /\ pc' = "fetching"

CallGetActivities ==
    /\ pc = "idle"
    /\ \E startDate \in StartDates, endDate \in EndDates :
          HandlerEntry(startDate, endDate)
    /\ tool' = "get_activities"
    /\ UNCHANGED <<pageVars, allItems, timeVars, yearVars, twoVars>>

CallGetUserPresences ==
    /\ pc = "idle"
    /\ \E startDate \in StartDates, endDate \in EndDates :
          HandlerEntry(startDate, endDate)
    /\ tool' = "get_user_presences"
    /\ UNCHANGED <<pageVars, allItems, timeVars, yearVars, twoVars>>

\* The API delivers one more record of the requested kind
FetchPage ==
    /\ pc = "fetching"
    /\ Len(allItems) < MaxItems
    /\ \E r \in (IF tool = "get_activities" THEN Activities ELSE Presences) :
          allItems' = Append(allItems, r)
    /\ UNCHANGED <<pageVars, pc, tool, params, result, timeVars, yearVars, twoVars>>

\* getActivitiesTool.handler after the await with the length === 0 test of
\* lines 51-58 left out
GetActivitiesResult_NoEmptyCheck(activities, startDate, endDate) ==
    LET summary == aggregateActivities(activities, startDate, endDate)
    IN  IF ActivitySummaryThrew(summary)
        THEN [kind |-> "error",
              text |-> "Error retrieving activities: Hours cannot be negative"]
        ELSE [kind |-> "summary", type |-> "activities", summary |-> summary]

\* try { ... } catch of getActivitiesTool.handler after the await, lines 49-65
GetActivitiesResult(activities, startDate, endDate) ==
    IF Len(activities) = 0
    THEN [kind |-> "empty", type |-> "activities"]
    ELSE LET summary == aggregateActivities(activities, startDate, endDate)
         IN  IF ActivitySummaryThrew(summary)
             THEN [kind |-> "error",
                   text |-> "Error retrieving activities: Hours cannot be negative"]
             ELSE [kind |-> "summary", type |-> "activities", summary |-> summary]

\* try { ... } catch of getUserPresencesTool.handler after the await, lines 42-57
GetUserPresencesResult(presences, startDate, endDate) ==
    IF Len(presences) = 0
    THEN [kind |-> "empty", type |-> "presences"]
    ELSE LET summary == aggregatePresences(presences, startDate, endDate)
         IN  IF PresenceSummaryThrew(summary)
             THEN [kind |-> "error",
                   text |-> "Error retrieving presences: Hours cannot be negative"]
             ELSE [kind |-> "summary", type |-> "presences", summary |-> summary,
                   report |-> formatPresencesSummary(summary)]

ReturnGetActivities ==
    /\ pc = "fetching"
    /\ tool = "get_activities"
    /\ result' = GetActivitiesResult(allItems, params.startDate, params.endDate)
    /\ pc' = "done"
    /\ UNCHANGED <<pageVars, tool, params, allItems, timeVars, yearVars, twoVars>>

ReturnGetUserPresences ==
    /\ pc = "fetching"
    /\ tool = "get_user_presences"
    /\ result' = GetUserPresencesResult(allItems, params.startDate, params.endDate)
    /\ pc' = "done"
    /\ UNCHANGED <<pageVars, tool, params, allItems, timeVars, yearVars, twoVars>>

Next ==
    \/ CallGetActivities
    \/ CallGetUserPresences
    \/ FetchPage
    \/ ReturnGetActivities
    \/ ReturnGetUserPresences

Spec == Init /\ [][Next]_vars

(***************************************************************************)
(* The time utilities applied to one argument.                             *)
(***************************************************************************)
InitTime ==
    /\ pc = "time"
    /\ tool = "none"
    /\ params = NoParams
    /\ allItems = <<>>
    /\ result = NoResult
    /\ tFn = "none"
    /\ tIn \in TimeInputs
    /\ tOut = "none"
    /\ entitlements = <<>>
    /\ failed = <<>>
    /\ pager = NoPager
    /\ reqs = <<>>
    /\ delivered = <<>>

CallFormatHoursToHHMM ==
    /\ tFn = "none"
    /\ tFn' = "formatHoursToHHMM"
    /\ tOut' = formatHoursToHHMM(tIn)
    /\ UNCHANGED <<pageVars, tIn, reqVars, yearVars, twoVars>>

CallCreateTimeFormat ==
    /\ tFn = "none"
    /\ tFn' = "createTimeFormat"
    /\ tOut' = createTimeFormat(tIn)
    /\ UNCHANGED <<pageVars, tIn, reqVars, yearVars, twoVars>>

NextTime ==
    \/ CallFormatHoursToHHMM
    \/ CallCreateTimeFormat

SpecTime == InitTime /\ [][NextTime]_vars

(***************************************************************************)
(* calculateHoursFromTimes applied to two well-formed clock times.         *)
(***************************************************************************)
\* "HH:MM" with every hour of the day and the minutes 00, 01, 15, 30, 59
ClockTimes == {<<h, m>> : h \in 0 .. 23, m \in {0, 1, 15, 30, 59}}

InitClock ==
    /\ pc = "clock"
    /\ tool = "none"
    /\ params = NoParams
    /\ allItems = <<>>
    /\ result = NoResult
    /\ tFn = "none"
    /\ tIn \in [fromTime : ClockTimes, toTime : ClockTimes]
    /\ tOut = "none"
    /\ entitlements = <<>>
    /\ failed = <<>>
    /\ pager = NoPager
    /\ reqs = <<>>
    /\ delivered = <<>>

CallCalculateHoursFromTimes ==
    /\ pc = "clock"
    /\ tFn = "none"
    /\ tFn' = "calculateHoursFromTimes"
    /\ tOut' = calculateHoursFromTimes(tIn.fromTime, tIn.toTime)
    /\ UNCHANGED <<pageVars, tIn, reqVars, yearVars, twoVars>>

NextClock ==
    \/ CallCalculateHoursFromTimes

SpecClock == InitClock /\ [][NextClock]_vars

(***************************************************************************)
(* One tools/call request for get_user_holidays or get_user_sick_days.     *)
(***************************************************************************)
\* Largest number of schedules the API returns for one year
MaxSchedules == 3

\* The year argument of the request and the year of the clock
Years == {1999, 2024, 2026}

CurrentYears == {2024, 2025}

\* A full day and a half day; the flags absent, both set, the morning only
ScheduleHours == {8 * TicksPerHour, 4 * TicksPerHour}

ScheduleFlags == {<<"undefined", "undefined">>, <<"true", "true">>, <<"true", "false">>}

Schedules ==
    {[date |-> d, hours |-> h, am |-> f[1], pm |-> f[2]] :
        d \in {<<2024, 7, 15>>, <<2024, 12, 23>>}, h \in ScheduleHours, f \in ScheduleFlags}

\* The replies of /users/holidays: nothing, or one entry of 0, 1, 25 or
\* -5 days
EntitlementReplies ==
    {<<>>} \cup {<<[days |-> d * TicksPerHour]>> : d \in {0, 1, 25, 0 - 5}}

InitYear ==
    /\ pc = "idle"
    /\ tool = "none"
    /\ params = NoParams
    /\ allItems = <<>>
    /\ result = NoResult
    /\ tFn = "none"
    /\ tIn = 0
    /\ tOut = "none"
    /\ entitlements = <<>>
    /\ failed = <<>>
    /\ pager = NoPager
    /\ reqs = <<>>
    /\ delivered = <<>>

\* Handler entry up to the first await: only a valid year reaches the API
\* (userHolidaysTools.ts 27-40, userSickDaysTools.ts 25-38)
YearHandlerEntry(year, currentYear, awaiting) ==
    /\ params' = [year |-> year]
    /\ IF ~validateYear(year, currentYear)
       THEN /\ result' = [kind |-> "validation",
                          text |-> "Invalid year: must be between 2000 and next year."]
            /\ pc' = "done"
       ELSE /\ result' = result
            /\ pc' = awaiting

CallGetUserHolidays ==
    /\ pc = "idle"
    /\ \E year \in Years, currentYear \in CurrentYears :
          YearHandlerEntry(year, currentYear, "fetchingEntitlements")
    /\ tool' = "get_user_holidays"
    /\ UNCHANGED <<pageVars, allItems, timeVars, yearVars, twoVars>>

CallGetUserSickDays ==
    /\ pc = "idle"
    /\ \E year \in Years, currentYear \in CurrentYears :
          YearHandlerEntry(year, currentYear, "fetching")
    /\ tool' = "get_user_sick_days"
    /\ UNCHANGED <<pageVars, allItems, timeVars, yearVars, twoVars>>

\* HTTP 401, 404 and 500, and a network failure
FailureOutcomes ==
    {[kind |-> "http", status |-> c, statusText |-> ""] : c \in {401, 404, 500}}
    \cup {[kind |-> "rejected",
           error |-> [type |-> "TypeError",
                      message |-> Message("fetch failed", {"fetch"}, <<>>)]]}

\* try { entitlements = await apiService.getUserHolidays(year) } catch: an
\* Error thrown by getUserHolidays leaves entitlements = []
FetchEntitlements ==
    /\ pc = "fetchingEntitlements"
    /\ \E outcome \in {[kind |-> "ok", data |-> d, headers |-> NoHeaders] :
                            d \in EntitlementReplies} \cup FailureOutcomes :
          LET reply == getUserHolidays(outcome)
          IN  /\ entitlements' = IF reply.threw THEN <<>> ELSE reply.value
              /\ failed' = IF outcome.kind = "ok" THEN failed
                           ELSE Append(failed, [endpoint |-> "/users/holidays",
                                                outcome |-> outcome])
    /\ pc' = "fetching"
    /\ UNCHANGED <<pageVars, tool, params, allItems, result, timeVars, twoVars>>

\* The API delivers one more vacation (or sick day) schedule of the year
FetchSchedules ==
    /\ pc = "fetching"
    /\ Len(allItems) < MaxSchedules
    /\ \E schedule \in Schedules : allItems' = Append(allItems, schedule)
    /\ UNCHANGED <<pageVars, pc, tool, params, result, timeVars, yearVars, twoVars>>

\* The /schedules request fails: getTakenHolidays (getTakenSickDays) hands
\* the handler what its catch returns
FailSchedules ==
    /\ pc = "fetching"
    /\ allItems = <<>>
    /\ \E outcome \in FailureOutcomes :
          /\ allItems' = getTakenSchedules(outcome).value
          /\ failed' = Append(failed, [endpoint |-> "/schedules", outcome |-> outcome])
    /\ pc' = "fetched"
    /\ UNCHANGED <<pageVars, tool, params, result, entitlements, timeVars, twoVars>>

\* getUserHolidaysTool.handler after the awaits
GetUserHolidaysResult(takenHolidays, entitlementList, year) ==
    IF Len(takenHolidays) = 0
    THEN [kind |-> "empty", type |-> "holidays",
          report |-> formatHolidaysWithNoData(year, entitlementList)]
    ELSE LET summary == createHolidaySummary(takenHolidays, entitlementList, year)
         IN  [kind |-> "summary", type |-> "holidays", summary |-> summary,
              report |-> formatHolidaysSummary(summary)]

\* getUserSickDaysTool.handler after the await
GetUserSickDaysResult(sickDays, year) ==
    IF Len(sickDays) = 0
    THEN [kind |-> "empty", type |-> "sick_days"]
    ELSE [kind |-> "summary", type |-> "sick_days",
          summary |-> createSickDaysSummary(sickDays, year)]

ReturnGetUserHolidays ==
    /\ pc \in {"fetching", "fetched"}
    /\ tool = "get_user_holidays"
    /\ result' = GetUserHolidaysResult(allItems, entitlements, params.year)
    /\ pc' = "done"
    /\ UNCHANGED <<pageVars, tool, params, allItems, timeVars, yearVars, twoVars>>

ReturnGetUserSickDays ==
    /\ pc \in {"fetching", "fetched"}
    /\ tool = "get_user_sick_days"
    /\ result' = GetUserSickDaysResult(allItems, params.year)
    /\ pc' = "done"
    /\ UNCHANGED <<pageVars, tool, params, allItems, timeVars, yearVars, twoVars>>

NextYear ==
    \/ CallGetUserHolidays
    \/ CallGetUserSickDays
    \/ FetchEntitlements
    \/ FetchSchedules
    \/ FailSchedules
    \/ ReturnGetUserHolidays
    \/ ReturnGetUserSickDays

SpecYear == InitYear /\ [][NextYear]_vars

(***************************************************************************)
(* Two get_activities requests in flight at once.  The request handler of  *)
(* index.ts is async: while one request is suspended at the await of a     *)
(* page, the other one runs.  Every invocation of the handler has its own  *)
(* MocoApiService, its own allItems (a local of fetchAllPages) and its own *)
(* Maps (locals of aggregateActivities).                                   *)
(***************************************************************************)
\* Largest number of records the API returns for one of the two requests
MaxTwoItems == 2

Requests == {1, 2}

\* A valid and an invalid date range
TwoRanges ==
    {[startDate |-> <<2024, 1, 31>>, endDate |-> <<2024, 2, 1>>],
     [startDate |-> <<2024, 2, 2>>, endDate |-> <<2024, 2, 1>>]}

\* 1.5 h on one task, 1.5 h on another project a day earlier, and -1 h
TwoActivities ==
    {[date |-> <<2024, 2, 1>>, project |-> 1, task |-> 1, hours |-> 150 * Cent],
     [date |-> <<2024, 1, 31>>, project |-> 2, task |-> 1, hours |-> 150 * Cent],
     [date |-> <<2024, 2, 1>>, project |-> 1, task |-> 2, hours |-> 0 - TicksPerHour]}

InitTwo ==
    /\ pc = "two"
    /\ tool = "none"
    /\ params = NoParams
    /\ allItems = <<>>
    /\ result = NoResult
    /\ tFn = "none"
    /\ tIn = 0
    /\ tOut = "none"
    /\ entitlements = <<>>
    /\ failed = <<>>
    /\ pager = NoPager
    /\ reqs = [r \in Requests |->
                  [pc |-> "idle", params |-> NoParams,
                   allItems |-> <<>>, result |-> NoResult]]
    /\ delivered = <<>>

\* allItems.push(...data) on a buffer that all requests in flight share
PushItems_SharedBuffer(rs, r, data) ==
    [q \in DOMAIN rs |->
        IF rs[q].pc = "fetching"
        THEN [rs[q] EXCEPT !.allItems = Append(@, data)]
        ELSE rs[q]]

\* allItems.push(...data) of fetchAllPages, on the allItems of request r
PushItems(rs, r, data) == [rs EXCEPT ![r].allItems = Append(@, data)]

\* Request r enters getActivitiesTool.handler and runs up to the await
TwoCallGetActivities ==
    /\ pc = "two"
    /\ \E r \in Requests, range \in TwoRanges :
          /\ reqs[r].pc = "idle"
          /\ reqs' = [reqs EXCEPT
                ![r].params = range,
                ![r].result =
                    IF ~validateDateRange(range.startDate, range.endDate)
                    THEN [kind |-> "validation",
                          text |-> "Invalid date range: Start date must be before or equal to end date."]
                    ELSE @,
                ![r].pc =
                    IF ~validateDateRange(range.startDate, range.endDate)
                    THEN "done" ELSE "fetching"]
    /\ UNCHANGED <<pageVars, delivered, reqVars, timeVars, yearVars>>

\* The API answers the pending fetch of request r with one more record
TwoFetchPage ==
    /\ pc = "two"
    /\ \E r \in Requests, data \in TwoActivities :
          /\ reqs[r].pc = "fetching"
          /\ Len(reqs[r].allItems) < MaxTwoItems
          /\ reqs' = PushItems(reqs, r, data)
          /\ delivered' = Append(delivered, [req |-> r, item |-> data])
    /\ UNCHANGED <<pageVars, reqVars, timeVars, yearVars>>

\* Request r resumes after its last page, aggregates and returns
TwoReturnGetActivities ==
    /\ pc = "two"
    /\ \E r \in Requests :
          /\ reqs[r].pc = "fetching"
          /\ reqs' = [reqs EXCEPT
                ![r].result = GetActivitiesResult(reqs[r].allItems,
                                  reqs[r].params.startDate, reqs[r].params.endDate),
                ![r].pc = "done"]
    /\ UNCHANGED <<pageVars, delivered, reqVars, timeVars, yearVars>>

NextTwo ==
    \/ TwoCallGetActivities
    \/ TwoFetchPage
    \/ TwoReturnGetActivities

SpecTwo == InitTwo /\ [][NextTwo]_vars

(***************************************************************************)
(* The request methods of MocoApiService applied to one outcome of fetch.  *)
(***************************************************************************)
StatusCodes == {301} \cup (400 .. 429) \cup (500 .. 505)

\* TypeError('fetch failed'), TypeError('Network error'), a TypeError that
\* names neither, the SyntaxError of response.json(), the Error of the 404
\* test of getUserHolidays, and an Error without a message
RejectionErrors ==
    {[type |-> "TypeError", message |-> Message("fetch failed", {"fetch"}, <<>>)],
     [type |-> "TypeError", message |-> Message("Network error", {"Network error"}, <<>>)],
     [type |-> "TypeError", message |-> Message("Invalid URL", {}, <<>>)],
     [type |-> "SyntaxError",
      message |-> Message("Unexpected token < in JSON at position 0", {}, <<>>)],
     [type |-> "Error",
      message |-> Message("Resource not found. Please check the provided IDs.",
                          {"Resource not found"}, <<>>)],
     [type |-> "Error", message |-> Message("", {}, <<>>)]}

FetchOutcomes ==
    {[kind |-> "ok", data |-> d, headers |-> NoHeaders] : d \in {<<>>, <<"item">>}}
    \cup {[kind |-> "http", status |-> c, statusText |-> t] :
            c \in StatusCodes, t \in {"", "Error"}}
    \cup {[kind |-> "rejected", error |-> e] : e \in RejectionErrors}

InitRequest ==
    /\ pc = "request"
    /\ tool = "none"
    /\ params = NoParams
    /\ allItems = <<>>
    /\ result = NoResult
    /\ tFn = "none"
    /\ tIn \in FetchOutcomes
    /\ tOut = "none"
    /\ entitlements = <<>>
    /\ failed = <<>>
    /\ pager = NoPager
    /\ reqs = <<>>
    /\ delivered = <<>>

CallMakeRequest ==
    /\ pc = "request"
    /\ tFn = "none"
    /\ tFn' = "makeRequest"
    /\ tOut' = makeRequest(tIn)
    /\ UNCHANGED <<pageVars, tIn, reqVars, yearVars, twoVars>>

CallMakeRequestWithHeaders ==
    /\ pc = "request"
    /\ tFn = "none"
    /\ tFn' = "makeRequestWithHeaders"
    /\ tOut' = makeRequestWithHeaders(tIn)
    /\ UNCHANGED <<pageVars, tIn, reqVars, yearVars, twoVars>>

CallApiGetUserHolidays ==
    /\ pc = "request"
    /\ tFn = "none"
    /\ tFn' = "getUserHolidays"
    /\ tOut' = getUserHolidays(tIn)
    /\ UNCHANGED <<pageVars, tIn, reqVars, yearVars, twoVars>>

CallApiGetTakenSchedules ==
    /\ pc = "request"
    /\ tFn = "none"
    /\ tFn' = "getTakenSchedules"
    /\ tOut' = getTakenSchedules(tIn)
    /\ UNCHANGED <<pageVars, tIn, reqVars, yearVars, twoVars>>

NextRequest ==
    \/ CallMakeRequest
    \/ CallMakeRequestWithHeaders
    \/ CallApiGetUserHolidays
    \/ CallApiGetTakenSchedules

SpecRequest == InitRequest /\ [][NextRequest]_vars

(***************************************************************************)
(* One tools/call request through the dispatcher of index.ts, with         *)
(* get_activities and get_user_presences fetching page by page.  The       *)
(* server holds a list of `total` records and serves it in pages of        *)
(* `perPage`; `missing` names a pagination header it does not send.        *)
(***************************************************************************)
\* Most records the server holds for one request
MaxTotal == 3

AVAILABLE_TOOLS ==
    {"get_activities", "get_user_projects", "get_user_project_tasks",
     "get_user_holidays", "get_user_presences", "get_user_sick_days",
     "get_public_holidays"}

\* Tool names of a call that are not registered
OtherToolNames == {"unknown_tool", ""}

Servers ==
    [total : 0 .. MaxTotal, perPage : {1, 2},
     missing : {"none", "X-Page", "X-Total", "X-Per-Page"}]

\* The k-th activity of the server's list
ActivityRecord(k) ==
    [date    |-> IF k % 2 = 1 THEN <<2024, 2, 1>> ELSE <<2024, 1, 31>>,
     project |-> 1 + (k % 2),
     task    |-> k,
     hours   |-> k * 50 * Cent]

\* The k-th presence of the server's list
PresenceRecord(k) ==
    [date |-> IF k % 2 = 1 THEN <<2024, 2, 1>> ELSE <<2024, 1, 31>>,
     from |-> <<9, 0>>,
     to   |-> <<9 + k, 30>>]

ServerRecord(name, k) ==
    IF name = "get_activities" THEN ActivityRecord(k) ELSE PresenceRecord(k)

\* The items of page `page`
PageData(name, server, page) ==
    LET first == (page - 1) * server.perPage + 1
        last  == IF page * server.perPage < server.total
                 THEN page * server.perPage ELSE server.total
    IN  [i \in 1 .. (IF last >= first THEN last - first + 1 ELSE 0) |->
            ServerRecord(name, first + i - 1)]

\* The pagination headers of the reply to page `page`
PageHeaders(server, page) ==
    [xPage    |-> IF server.missing = "X-Page" THEN <<>> ELSE <<page>>,
     xTotal   |-> IF server.missing = "X-Total" THEN <<>> ELSE <<server.total>>,
     xPerPage |-> IF server.missing = "X-Per-Page" THEN <<>> ELSE <<server.perPage>>]

\* The thrown 'Tool not found' Error: the protocol answers with an error
\* and no content
ProtocolError(name) ==
    [protocolError |-> TRUE, message |-> "Tool not found: " \o name, content |-> <<>>]

\* The dispatcher with a handler's error text turned into a protocol error
ToolResponse_ErrorAsProtocolError(text) ==
    IF text.kind = "error"
    THEN [protocolError |-> TRUE, message |-> text.text, content |-> <<>>]
    ELSE [protocolError |-> FALSE, message |-> "",
          content |-> <<[type |-> "text", text |-> text]>>]

\* return { content: [{ type: "text", text: result }] }
ToolResponse(text) ==
    [protocolError |-> FALSE, message |-> "",
     content |-> <<[type |-> "text", text |-> text]>>]

InitPages ==
    /\ pc = "idle"
    /\ tool = "none"
    /\ params = NoParams
    /\ allItems = <<>>
    /\ result = NoResult
    /\ tFn = "none"
    /\ tIn = 0
    /\ tOut = "none"
    /\ entitlements = <<>>
    /\ failed = <<>>
    /\ pager \in [currentPage : {0}, hasMorePages : {FALSE}, requested : {<<>>},
                  server : Servers]
    /\ reqs = <<>>
    /\ delivered = <<>>

\* AVAILABLE_TOOLS.find fails: throw new Error(`Tool not found: ${name}`)
DispatchUnknownTool ==
    /\ pc = "idle"
    /\ \E name \in OtherToolNames :
          /\ name \notin AVAILABLE_TOOLS
          /\ tool' = name
          /\ result' = ProtocolError(name)
    /\ pc' = "done"
    /\ UNCHANGED <<params, allItems, pager, timeVars, yearVars, twoVars>>

\* The handler of a date-range tool up to the first page request: the range
\* is validated, and only a valid range starts fetchAllPages
RangeHandlerEntry(startDate, endDate) ==
    /\ params' = [startDate |-> startDate, endDate |-> endDate]
    /\ IF ~validateDateRange(startDate, endDate)
       THEN /\ result' = ToolResponse(
                   [kind |-> "validation",
                    text |-> "Invalid date range: Start date must be before or equal to end date."])
            /\ pc' = "done"
            /\ pager' = pager
       ELSE /\ result' = result
            /\ pc' = "requesting"
            /\ pager' = [pager EXCEPT !.currentPage = 1, !.hasMorePages = TRUE]

DispatchGetActivities ==
    /\ pc = "idle"
    /\ "get_activities" \in AVAILABLE_TOOLS
    /\ \E startDate \in StartDates, endDate \in EndDates :
          RangeHandlerEntry(startDate, endDate)
    /\ tool' = "get_activities"
    /\ UNCHANGED <<allItems, timeVars, yearVars, twoVars>>

DispatchGetUserPresences ==
    /\ pc = "idle"
    /\ "get_user_presences" \in AVAILABLE_TOOLS
    /\ \E startDate \in StartDates, endDate \in EndDates :
          RangeHandlerEntry(startDate, endDate)
    /\ tool' = "get_user_presences"
    /\ UNCHANGED <<allItems, timeVars, yearVars, twoVars>>

\* while (hasMorePages): makeRequestWithHeaders for page currentPage is sent
RequestPage ==
    /\ pc = "requesting"
    /\ pager.hasMorePages
    /\ pager' = [pager EXCEPT !.requested = Append(@, pager.currentPage)]
    /\ pc' = "awaiting"
    /\ UNCHANGED <<tool, params, allItems, result, timeVars, yearVars, twoVars>>

\* The page arrives: allItems.push(...data), hasMorePages from the headers,
\* currentPage++
ReplyPage ==
    /\ pc = "awaiting"
    /\ LET reply == makeRequestWithHeaders(
                       [kind    |-> "ok",
                        data    |-> PageData(tool, pager.server, pager.currentPage),
                        headers |-> PageHeaders(pager.server, pager.currentPage)])
           more == HasMorePages(pager.currentPage, reply.value.headers)
       IN  /\ allItems' = allItems \o reply.value.data
           /\ pager' = [pager EXCEPT !.hasMorePages = more,
                                     !.currentPage = @ + 1]
           /\ pc' = IF more THEN "requesting" ELSE "fetched"
    /\ UNCHANGED <<tool, params, result, timeVars, yearVars, twoVars>>

\* The request of page currentPage fails: makeRequestWithHeaders throws and
\* the loop is left
FailPage ==
    /\ pc = "awaiting"
    /\ \E outcome \in FailureOutcomes :
          failed' = Append(failed, [endpoint |-> tool, page |-> pager.currentPage,
                                    outcome |-> outcome,
                                    error |-> makeRequestWithHeaders(outcome).error])
    /\ pc' = "threw"
    /\ UNCHANGED <<tool, params, allItems, result, pager, entitlements,
                   timeVars, twoVars>>

\* What fetchAllPages hands to the handler
FetchAllPagesEnded ==
    fetchAllPagesResult(pc = "threw", allItems,
                        IF pc = "threw" THEN failed[Len(failed)].error
                        ELSE [type |-> "none", message |-> Message("", {}, <<>>)])

\* getActivitiesTool.handler after the await, with its catch, answered
\* through the dispatcher
ReturnActivitiesPaged ==
    /\ pc \in {"fetched", "threw"}
    /\ tool = "get_activities"
    /\ result' = ToolResponse(
          IF FetchAllPagesEnded.threw
          THEN [kind |-> "error",
                text |-> "Error retrieving activities: "
                            \o FetchAllPagesEnded.error.message.text]
          ELSE GetActivitiesResult(FetchAllPagesEnded.value,
                                   params.startDate, params.endDate))
    /\ pc' = "done"
    /\ UNCHANGED <<tool, params, allItems, pager, timeVars, yearVars, twoVars>>

\* getUserPresencesTool.handler after the await, with its catch, answered
\* through the dispatcher
ReturnPresencesPaged ==
    /\ pc \in {"fetched", "threw"}
    /\ tool = "get_user_presences"
    /\ result' = ToolResponse(
          IF FetchAllPagesEnded.threw
          THEN [kind |-> "error",
                text |-> "Error retrieving presences: "
                            \o FetchAllPagesEnded.error.message.text]
          ELSE GetUserPresencesResult(FetchAllPagesEnded.value,
                                      params.startDate, params.endDate))
    /\ pc' = "done"
    /\ UNCHANGED <<tool, params, allItems, pager, timeVars, yearVars, twoVars>>

NextPages ==
    \/ DispatchUnknownTool
    \/ DispatchGetActivities
    \/ DispatchGetUserPresences
    \/ RequestPage
    \/ ReplyPage
    \/ FailPage
    \/ ReturnActivitiesPaged
    \/ ReturnPresencesPaged

SpecPages == InitPages /\ [][NextPages]_vars

(***************************************************************************)
(* Properties                                                              *)
(***************************************************************************)

\* The handler returned an activity summary
ActivitySummaryReturned ==
    /\ pc = "done"
    /\ result.kind = "summary"
    /\ result.type = "activities"

\* The handler returned a presence summary
PresenceSummaryReturned ==
    /\ pc = "done"
    /\ result.kind = "summary"
    /\ result.type = "presences"

RECURSIVE Sum(_)
Sum(s) == IF s = <<>> THEN 0 ELSE Head(s) + Sum(Tail(s))

\* The hours of the records of `records` that satisfy Test
HoursWhere(records, Test(_)) ==
    LET sel == SelectSeq(records, Test)
    IN  Sum([i \in DOMAIN sel |-> sel[i].hours])

IsHundredth(hours) == hours % Cent = 0

\* C1: the grand total of a returned activity summary is the sum of the
\* daily totals of its dailySummaries.
C1_GrandTotalIsSumOfDailyTotals ==
    ActivitySummaryReturned =>
        LET days == result.summary.dailySummaries
        IN  result.summary.grandTotal.hours
                = Sum([i \in DOMAIN days |-> days[i].dailyTotal.hours])

\* Two days, one of them with hours that are no multiple of 0.01 h
C1_Witness ==
    /\ ActivitySummaryReturned
    /\ Len(result.summary.dailySummaries) = 2
    /\ result.summary.grandTotal.hours > 0
    /\ \E i \in DOMAIN allItems : ~IsHundredth(allItems[i].hours)

\* C2: in every daily summary each project total is the sum of the hours of
\* the project's task entries and the daily total is the sum of the project
\* totals.
C2_DailyNodesAreSumOfChildren ==
    ActivitySummaryReturned =>
        \A i \in DOMAIN result.summary.dailySummaries :
            LET day == result.summary.dailySummaries[i]
            IN  /\ day.dailyTotal.hours
                      = Sum([j \in DOMAIN day.projects |-> day.projects[j].projectTotal.hours])
                /\ \A j \in DOMAIN day.projects :
                      day.projects[j].projectTotal.hours
                          = Sum([k \in DOMAIN day.projects[j].tasks |->
                                    day.projects[j].tasks[k].hours])

\* C3: the grand total is the sum of the cross-day project totals.
C3_GrandTotalIsSumOfProjectTotals ==
    ActivitySummaryReturned =>
        LET totals == result.summary.projectTotals
        IN  result.summary.grandTotal.hours
                = Sum([i \in DOMAIN totals |-> totals[i].total.hours])

\* Two projects over two days, with hours that are no multiple of 0.01 h
C3_Witness ==
    /\ ActivitySummaryReturned
    /\ Len(result.summary.dailySummaries) = 2
    /\ Len(result.summary.projectTotals) = 2
    /\ \E i \in DOMAIN allItems : ~IsHundredth(allItems[i].hours)

\* C4: every cross-day project total is the sum of its cross-day task
\* totals, and every cross-day task total is the sum over all days of the
\* task's per-day hours under that project.
C4_ProjectTotalsAreSumOfChildren ==
    ActivitySummaryReturned =>
        \A i \in DOMAIN result.summary.projectTotals :
            LET p == result.summary.projectTotals[i]
            IN  /\ p.total.hours = Sum([j \in DOMAIN p.tasks |-> p.tasks[j].total.hours])
                /\ \A j \in DOMAIN p.tasks :
                      p.tasks[j].total.hours
                          = HoursWhere(allItems,
                                LAMBDA a : a.project = p.projectId /\ a.task = p.tasks[j].taskId)

\* C5: the clock string of a TimeFormat is the rendering of its stored
\* (rounded) hours, for every non-negative argument of createTimeFormat.
C5_ClockStringRendersStoredHours ==
    (tFn = "createTimeFormat" /\ tIn >= 0) =>
        tOut.hoursFormatted = formatHoursToHHMM(tOut.hours)

\* C6: the grand total is the sum of the hours of all input records rounded
\* to two decimals, and each daily total is the rounded sum of the hours of
\* that date's records.
C6_TotalsAreRoundedSumOfRecords ==
    ActivitySummaryReturned =>
        /\ result.summary.grandTotal.hours
              = roundHours(HoursWhere(allItems, LAMBDA a : TRUE))
        /\ \A i \in DOMAIN result.summary.dailySummaries :
              LET day == result.summary.dailySummaries[i]
              IN  day.dailyTotal.hours
                      = roundHours(HoursWhere(allItems, LAMBDA a : a.date = day.date))

\* C7: a fetched batch that contains a record with hours < 0 is answered
\* with an error, never with a summary.
C7_NegativeHoursRejectBatch ==
    (/\ pc = "done"
     /\ tool = "get_activities"
     /\ result.kind # "validation"
     /\ \E i \in DOMAIN allItems : allItems[i].hours < 0)
        => result.kind = "error"

\* "H:MM": the hours unpadded, the minutes as two digits
ClockString(h, m) ==
    ToString(h) \o ":" \o (IF m < 10 THEN "0" ELSE "") \o ToString(m)

\* hours * 60 rounded to the nearest whole minute, halves up
NearestMinute(hours) == (hours * 60 * 2 + TicksPerHour) \div (2 * TicksPerHour)

\* C8: for hours >= 0 formatHoursToHHMM renders floor(hours) and the rounded
\* minutes of the fraction, carrying 60 minutes into the next hour, so the
\* result is the clock string of the nearest whole minute with its minutes
\* field in 00..59; 1.9999 gives "2:00" and 10.1 gives "10:06".
C8_FormatIsNearestMinuteWithCarry ==
    (tFn = "formatHoursToHHMM" /\ tIn >= 0) =>
        /\ tOut = ClockString(NearestMinute(tIn) \div 60, NearestMinute(tIn) % 60)
        /\ \E h \in {tIn \div TicksPerHour, tIn \div TicksPerHour + 1}, m \in 0..59 :
              tOut = ClockString(h, m)
        /\ (tIn = 2 * TicksPerHour - 3) => tOut = "2:00"
        /\ (tIn = 1010 * Cent) => tOut = "10:06"

\* formatHoursToHHMM(1.9999) returned "2:00"
C8_Witness ==
    /\ tFn = "formatHoursToHHMM"
    /\ tIn = 2 * TicksPerHour - 3
    /\ tOut = "2:00"

\* C9: formatHoursToHHMM throws 'Hours cannot be negative' exactly for the
\* arguments below zero.
C9_ThrowsIffNegative ==
    (tFn = "formatHoursToHHMM") =>
        ((tOut = ThrownNegative) <=> (tIn < 0))

\* formatHoursToHHMM(-1) threw
C9_Witness ==
    /\ tFn = "formatHoursToHHMM"
    /\ tIn = 0 - TicksPerHour
    /\ tOut = ThrownNegative

\* C10: the dailySummaries of an activity or presence summary hold each
\* distinct input date exactly once, in strictly ascending date order.
C10_DailySummariesAscendingDistinctDates ==
    (ActivitySummaryReturned \/ PresenceSummaryReturned) =>
        LET days == result.summary.dailySummaries
        IN  /\ \A i, j \in DOMAIN days : i < j => DateLess(days[i].date, days[j].date)
            /\ {days[i].date : i \in DOMAIN days} = {allItems[k].date : k \in DOMAIN allItems}

\* A summary of records that arrived with the later date first
C10_Witness ==
    /\ PresenceSummaryReturned
    /\ Len(allItems) >= 2
    /\ DateLess(allItems[2].date, allItems[1].date)
    /\ Len(result.summary.dailySummaries) = 2

\* The distinct elements of s in the order of their first occurrence
RECURSIVE FirstSeenFrom(_, _, _)
FirstSeenFrom(s, i, acc) ==
    IF i > Len(s) THEN acc
    ELSE FirstSeenFrom(s, i + 1,
             IF \E k \in DOMAIN acc : acc[k] = s[i] THEN acc ELSE Append(acc, s[i]))

FirstSeen(s) == FirstSeenFrom(s, 1, <<>>)

RECURSIVE Flatten(_)
Flatten(ss) == IF ss = <<>> THEN <<>> ELSE Head(ss) \o Flatten(Tail(ss))

\* C11: the per-day task entry of (date, project, task) holds the sum of the
\* hours of all input activities with that date, project and task, and there
\* is exactly one task entry per (date, project, task) of the input.
C11_TaskEntryAccumulatesRecords ==
    ActivitySummaryReturned =>
        LET days == result.summary.dailySummaries
        IN  /\ \A i \in DOMAIN days : \A j \in DOMAIN days[i].projects :
                  LET project == days[i].projects[j]
                  IN  /\ \A k \in DOMAIN project.tasks :
                            project.tasks[k].hours
                                = HoursWhere(allItems,
                                      LAMBDA a : /\ a.date = days[i].date
                                                 /\ a.project = project.projectId
                                                 /\ a.task = project.tasks[k].taskId)
                      /\ \A k, l \in DOMAIN project.tasks :
                            project.tasks[k].taskId = project.tasks[l].taskId => k = l
                      /\ \A l \in DOMAIN days[i].projects :
                            days[i].projects[l].projectId = project.projectId => l = j
            /\ \A n \in DOMAIN allItems :
                  \E i \in DOMAIN days : \E j \in DOMAIN days[i].projects :
                      \E k \in DOMAIN days[i].projects[j].tasks :
                          /\ days[i].date = allItems[n].date
                          /\ days[i].projects[j].projectId = allItems[n].project
                          /\ days[i].projects[j].tasks[k].taskId = allItems[n].task

\* Two records of one (date, project, task) were summarised
C11_Witness ==
    /\ ActivitySummaryReturned
    /\ \E m, n \in DOMAIN allItems :
          /\ m < n
          /\ allItems[m].date = allItems[n].date
          /\ allItems[m].project = allItems[n].project
          /\ allItems[m].task = allItems[n].task
          /\ allItems[m].hours # allItems[n].hours

\* C12: a cross-day task total holds the hours of the records of its own
\* (project, task) path only: records with the same task id under another
\* project are not merged into it.
C12_TaskTotalsKeyedByProjectAndTask ==
    ActivitySummaryReturned =>
        LET totals == result.summary.projectTotals
        IN  /\ \A i \in DOMAIN totals : \A j \in DOMAIN totals[i].tasks :
                  totals[i].tasks[j].total.hours
                      = roundHours(HoursWhere(allItems,
                            LAMBDA a : /\ a.project = totals[i].projectId
                                       /\ a.task = totals[i].tasks[j].taskId))
            /\ \A n \in DOMAIN allItems :
                  \E i \in DOMAIN totals : \E j \in DOMAIN totals[i].tasks :
                      /\ totals[i].projectId = allItems[n].project
                      /\ totals[i].tasks[j].taskId = allItems[n].task

\* Task 1 was booked under project 1 and under project 2
C12_Witness ==
    /\ ActivitySummaryReturned
    /\ \E m, n \in DOMAIN allItems :
          /\ allItems[m].task = allItems[n].task
          /\ allItems[m].project # allItems[n].project
          /\ allItems[m].hours > 0
          /\ allItems[n].hours > 0

\* C13: within a date the projects, and within a project the tasks, are in
\* the order of their first appearance in the input; the projects of
\* projectTotals are in the order of their first appearance in the
\* date-ascending traversal of the daily summaries.
C13_FirstSeenOrder ==
    ActivitySummaryReturned =>
        LET days == result.summary.dailySummaries
            totals == result.summary.projectTotals
        IN  /\ \A i \in DOMAIN days :
                  LET ofDay == SelectSeq(allItems, LAMBDA a : a.date = days[i].date)
                  IN  /\ [j \in DOMAIN days[i].projects |-> days[i].projects[j].projectId]
                            = FirstSeen([n \in DOMAIN ofDay |-> ofDay[n].project])
                      /\ \A j \in DOMAIN days[i].projects :
                            LET ofProject == SelectSeq(ofDay,
                                    LAMBDA a : a.project = days[i].projects[j].projectId)
                            IN  [k \in DOMAIN days[i].projects[j].tasks |->
                                    days[i].projects[j].tasks[k].taskId]
                                  = FirstSeen([n \in DOMAIN ofProject |-> ofProject[n].task])
            /\ [i \in DOMAIN totals |-> totals[i].projectId]
                  = FirstSeen(Flatten([i \in DOMAIN days |->
                        [j \in DOMAIN days[i].projects |-> days[i].projects[j].projectId]]))

\* A day lists project 2 before project 1, and task 2 before task 1
C13_Witness ==
    /\ ActivitySummaryReturned
    /\ \E i \in DOMAIN result.summary.dailySummaries :
          LET day == result.summary.dailySummaries[i]
          IN  /\ Len(day.projects) = 2
              /\ day.projects[1].projectId = 2
              /\ Len(day.projects[2].tasks) = 2
              /\ day.projects[2].tasks[1].taskId = 2

\* C14: an empty fetched record set is answered with the 'No ... found'
\* message of the tool, not with an error, and aggregateActivities of the
\* empty sequence has no daily summaries and a grand total of 0 hours.
C14_EmptyBatchIsNotAnError ==
    (pc = "done" /\ tool \in {"get_activities", "get_user_presences"}
        /\ result.kind # "validation" /\ allItems = <<>>) =>
        /\ result.kind = "empty"
        /\ result.type = (IF tool = "get_activities" THEN "activities" ELSE "presences")
        /\ LET summary == aggregateActivities(allItems, params.startDate, params.endDate)
           IN  /\ summary.dailySummaries = <<>>
               /\ summary.grandTotal.hours = 0
               /\ ~ActivitySummaryThrew(summary)

\* get_activities returned after the API delivered no record
C14_Witness ==
    /\ pc = "done"
    /\ tool = "get_activities"
    /\ allItems = <<>>
    /\ result.kind = "empty"

\* The minutes from clock time a to the next occurrence of clock time b
ElapsedMinutes(a, b) == ((b[1] * 60 + b[2]) - (a[1] * 60 + a[2])) % (24 * 60)

\* The completed (from and to set) presence records of a date
CompletedOn(date) ==
    SelectSeq(allItems, LAMBDA p : p.date = date /\ p.from # Unset /\ p.to # Unset)

\* The elapsed time, in ticks, of the completed presence records of a date
ElapsedOn(date) ==
    LET done == CompletedOn(date)
    IN  Sum([i \in DOMAIN done |-> ElapsedMinutes(done[i].from, done[i].to) * Minute])

\* C16 as stated: the daily presence total equals the sum of the elapsed
\* hours of that date's completed records.
C16_DailyTotalIsExactSum ==
    PresenceSummaryReturned =>
        \A i \in DOMAIN result.summary.dailySummaries :
            result.summary.dailySummaries[i].totalHours
                = ElapsedOn(result.summary.dailySummaries[i].date)

\* C16, amended: only completed records contribute to a date's total, an
\* open record adds nothing and raises no error, and the daily total is the
\* sum of the elapsed hours of the date's completed records rounded to two
\* decimals (its clock string renders the unrounded sum).
C16_DailyTotalIsRoundedSumOfCompleted ==
    (pc = "done" /\ tool = "get_user_presences" /\ result.kind # "validation") =>
        /\ result.kind # "error"
        /\ result.kind = "summary" =>
              \A i \in DOMAIN result.summary.dailySummaries :
                  LET day == result.summary.dailySummaries[i]
                      elapsed == ElapsedOn(day.date)
                  IN  /\ day.totalHours = roundHours(elapsed)
                      /\ day.totalHoursFormatted
                            = ClockString(elapsed \div TicksPerHour,
                                          (elapsed % TicksPerHour) \div Minute)

\* A date with an open record next to a completed one of 8 h 20 min
C16_Witness ==
    /\ PresenceSummaryReturned
    /\ \E m, n \in DOMAIN allItems :
          /\ allItems[m].date = allItems[n].date
          /\ allItems[m].to = Unset
          /\ allItems[n].from = <<9, 0>>
          /\ allItems[n].to = <<17, 20>>

\* C17: the 'Working days' statistic is the number of distinct dates with at
\* least one completed presence record.
C17_WorkingDaysCountQualifyingDates ==
    PresenceSummaryReturned =>
        result.report.statistics.workingDays
            = Cardinality({allItems[n].date : n \in
                  {k \in DOMAIN allItems : allItems[k].from # Unset /\ allItems[k].to # Unset}})

\* C18: the presence report never divides by zero: the statistics are shown
\* with workingDays > 0 and a finite average that is grandTotal.hours /
\* workingDays rounded to two decimals, and no presence batch is answered
\* with an error.
C18_AverageNeverDividesByZero ==
    (pc = "done" /\ tool = "get_user_presences" /\ result.kind # "validation") =>
        /\ result.kind \in {"empty", "summary"}
        /\ result.kind = "empty" <=> allItems = <<>>
        /\ result.kind = "summary" =>
              LET stats == result.report.statistics
                  total == result.report.grandTotal.hours
              IN  /\ stats.shown
                  /\ stats.workingDays > 0
                  /\ stats.averageHoursPerDay.finite
                  /\ stats.averageHoursPerDay.hours % Cent = 0
                  /\ (2 * stats.averageHoursPerDay.hours - Cent) * stats.workingDays
                        <= 2 * total
                  /\ 2 * total
                        < (2 * stats.averageHoursPerDay.hours + Cent) * stats.workingDays
                  /\ stats.averageFormatted # "NaN:NaN"
                  /\ stats.averageFormatted # ThrownNegative

\* A report over records that are all open
C18_Witness ==
    /\ PresenceSummaryReturned
    /\ Len(allItems) >= 2
    /\ \A n \in DOMAIN allItems : allItems[n].to = Unset
    /\ result.report.statistics.workingDays = 2
    /\ result.report.statistics.averageHoursPerDay.hours = 0

\* Minutes since midnight of a clock time
MinuteOfDay(t) == t[1] * 60 + t[2]

\* C19: calculateHoursFromTimes(from, to) is (to - from) minutes / 60 when
\* to >= from and (to - from + 24*60) minutes / 60 when to < from; the
\* result lies in [0, 24) hours, leads from 'from' to 'to' on the 24 h clock
\* and is 0 when from = to.
C19_ElapsedWrapsAtMidnight ==
    (pc = "clock" /\ tFn = "calculateHoursFromTimes") =>
        LET fromMin == MinuteOfDay(tIn.fromTime)
            toMin   == MinuteOfDay(tIn.toTime)
        IN  /\ toMin >= fromMin => tOut * 60 = (toMin - fromMin) * TicksPerHour
            /\ toMin < fromMin
                  => tOut * 60 = (toMin - fromMin + 24 * 60) * TicksPerHour
            /\ 0 <= tOut
            /\ tOut < 24 * TicksPerHour
            /\ (fromMin * Minute + tOut) % (24 * TicksPerHour) = toMin * Minute
            /\ tIn.fromTime = tIn.toTime => tOut = 0

\* 22:00 to 02:15 of the next day is 4.25 h
C19_Witness ==
    /\ pc = "clock"
    /\ tFn = "calculateHoursFromTimes"
    /\ tIn.fromTime = <<22, 0>>
    /\ tIn.toTime = <<2, 15>>
    /\ tOut = 425 * Cent

\* The handler returned a holiday or sick-day summary
YearSummaryReturned ==
    /\ pc = "done"
    /\ tool \in {"get_user_holidays", "get_user_sick_days"}
    /\ result.kind = "summary"

\* The schedules of a date among the fetched ones
SchedulesOn(date) == SelectSeq(allItems, LAMBDA s : s.date = date)

\* The summary entries of a date
EntriesOn(date) == SelectSeq(result.summary.holidays, LAMBDA e : e.date = date)

\* C20: in the holiday and sick-day summaries the day counts of a date are
\* its schedules' hours / 8 (8 h is 1 day, 4 h is 0.5 day), and
\* totalTakenDays is the sum of the entries' day counts.
C20_DaysAreHoursOverEight ==
    YearSummaryReturned =>
        /\ \A s \in {allItems[n] : n \in DOMAIN allItems} :
              LET entries == EntriesOn(s.date)
                  schedules == SchedulesOn(s.date)
              IN  Sum([i \in DOMAIN entries |-> entries[i].days])
                    = Sum([i \in DOMAIN schedules |-> hoursToDays(schedules[i].hours)])
        /\ result.summary.totalTakenDays
              = Sum([i \in DOMAIN result.summary.holidays |->
                        result.summary.holidays[i].days])

\* The records the API sent in reply to request r, in the order sent
DeliveredTo(r) ==
    LET sent == SelectSeq(delivered, LAMBDA e : e.req = r)
    IN  [i \in DOMAIN sent |-> sent[i].item]

\* Request r has returned something other than a validation message
Answered(r) == reqs[r].pc = "done" /\ reqs[r].result.kind # "validation"

\* C15: what a request returns is determined by the record sequence fetched
\* for that request (and its date range), whatever the other request did
\* before or in between; two requests with the same fetched sequence return
\* the same summary.
C15_SummaryDependsOnOwnRecordsOnly ==
    pc = "two" =>
        /\ \A r \in Requests :
              Answered(r) =>
                  reqs[r].result = GetActivitiesResult(DeliveredTo(r),
                                       reqs[r].params.startDate, reqs[r].params.endDate)
        /\ \A r, q \in Requests :
              (Answered(r) /\ Answered(q) /\ DeliveredTo(r) = DeliveredTo(q))
                  => reqs[r].result = reqs[q].result

\* Both requests returned a summary after their fetches alternated, each
\* over different records
C15_Witness ==
    /\ pc = "two"
    /\ Len(delivered) = 4
    /\ \A i \in 1 .. 4 : delivered[i].req = 1 + ((i + 1) % 2)
    /\ DeliveredTo(1) # DeliveredTo(2)
    /\ \A r \in Requests : Answered(r) /\ reqs[r].result.kind = "summary"

\* get_user_holidays returned an overview
HolidayOverviewReturned ==
    /\ pc = "done"
    /\ tool = "get_user_holidays"
    /\ result.kind \in {"summary", "empty"}

\* entitlements[0].days of the reply of /users/holidays, 0 without a reply
EntitlementDays == IF Len(entitlements) > 0 THEN entitlements[1].days ELSE 0

\* The day counts of the fetched schedules, added up
TakenDays == Sum([n \in DOMAIN allItems |-> calculateDaysFromSchedule(allItems[n])])

\* C21: utilizationPercentage is round(taken / entitlement * 100) when the
\* entitlement is positive and 0 otherwise, remainingDays is
\* max(0, entitlement - taken), and the holiday report prints the
\* entitlement, utilization and remaining lines only for a positive
\* entitlement, never with a negative remaining value.
C21_UtilizationAndRemainingGuarded ==
    HolidayOverviewReturned =>
        /\ result.kind = "summary" =>
              /\ result.summary.utilizationPercentage
                    = (IF EntitlementDays > 0
                       THEN MathRound(TakenDays * 100, EntitlementDays)
                       ELSE 0)
              /\ result.summary.remainingDays
                    = (IF EntitlementDays - TakenDays > 0
                       THEN EntitlementDays - TakenDays
                       ELSE 0)
        /\ result.report.entitlementLines # <<>> <=> EntitlementDays > 0
        /\ \A i \in DOMAIN result.report.entitlementLines :
              result.report.entitlementLines[i].remaining >= 0

\* C22: the holiday and sick-day summaries hold at most one entry per date,
\* in ascending date order, and the entry of a date carries the sum of the
\* day counts of that date's records.
C22_OneEntryPerDate ==
    YearSummaryReturned =>
        LET entries == result.summary.holidays
        IN  /\ \A i \in 1 .. Len(entries) - 1 :
                  DateLess(entries[i].date, entries[i + 1].date)
            /\ \A i \in DOMAIN entries :
                  LET schedules == SchedulesOn(entries[i].date)
                  IN  entries[i].days
                        = Sum([n \in DOMAIN schedules |->
                                  calculateDaysFromSchedule(schedules[n])])

\* The message required for a failed request: by status code for an HTTP
\* failure, the network message for a network TypeError, 'MoCo API error:'
\* and the message for any other error with a message, the unknown-error
\* message without one
RequiredErrorText(outcome) ==
    IF outcome.kind = "http"
    THEN CASE outcome.status = 400 -> "Invalid parameters. Please check your inputs."
           [] outcome.status = 401 -> "API authentication failed. Please check MOCO_API_KEY."
           [] outcome.status = 403 -> "Access denied. Please check your API permissions."
           [] outcome.status = 404 -> "Resource not found. Please check the provided IDs."
           [] outcome.status = 422 -> "Invalid data. Please check date formats and value ranges."
           [] outcome.status = 429 -> "API limit reached. Please try again in a few seconds."
           [] outcome.status \in {500, 502, 503, 504} ->
                  "MoCo server error. Please try again later."
           [] OTHER -> "HTTP error " \o ToString(outcome.status) \o ". Please contact support."
    ELSE IF /\ outcome.error.type = "TypeError"
            /\ outcome.error.message.includes \cap {"fetch", "Network error"} # {}
    THEN "Network error accessing MoCo API. Please check your internet connection."
    ELSE IF outcome.error.message.text # ""
    THEN "MoCo API error: " \o outcome.error.message.text
    ELSE "Unknown error accessing MoCo API."

IsNotFound(outcome) ==
    \/ outcome.kind = "http" /\ outcome.status = 404
    \/ /\ outcome.kind = "rejected"
       /\ outcome.error.type = "Error"
       /\ "Resource not found" \in outcome.error.message.includes

\* C23: getUserHolidays returns [] when the entitlement request fails with
\* NotFound, throws for every other failure the Error that the request
\* threw, and returns the data of a request that succeeded.
C23_OnlyNotFoundBecomesEmpty ==
    (pc = "request" /\ tFn = "getUserHolidays") =>
        /\ IsNotFound(tIn) => ~tOut.threw /\ tOut.value = <<>>
        /\ (tIn.kind # "ok" /\ ~IsNotFound(tIn)) =>
              /\ tOut.threw
              /\ tOut.error.message.text = RequiredErrorText(tIn)
        /\ tIn.kind = "ok" => ~tOut.threw /\ tOut.value = tIn.data

\* HTTP 404 on /users/holidays answered with []
C23_Witness ==
    /\ pc = "request"
    /\ tFn = "getUserHolidays"
    /\ tIn.kind = "http"
    /\ tIn.status = 404
    /\ ~tOut.threw
    /\ tOut.value = <<>>

\* C24: in get_user_holidays and get_user_sick_days a fetch that fails with
\* anything but NotFound is answered with an error result, never with a
\* normal overview.
C24_FetchFailureBecomesErrorResult ==
    (/\ pc = "done"
     /\ tool \in {"get_user_holidays", "get_user_sick_days"}
     /\ \E i \in DOMAIN failed : ~IsNotFound(failed[i].outcome))
        => result.kind = "error"

\* fetchAllPages has been entered for a date-range tool
Paging == tool \in {"get_activities", "get_user_presences"} /\ pager.currentPage >= 1

\* The pages 1 .. n
PageNumbers(n) == [i \in 1 .. n |-> i]

\* The items of the pages 1 .. n, page after page
RECURSIVE PagesConcat(_, _, _)
PagesConcat(name, server, n) ==
    IF n = 0 THEN <<>>
    ELSE PagesConcat(name, server, n - 1) \o PageData(name, server, n)

\* N as stated: ceil(X-Total / X-Per-Page), 1 when a pagination header is
\* absent
StatedPageCount(server) ==
    IF server.missing # "none" THEN 1
    ELSE (server.total + server.perPage - 1) \div server.perPage

\* C25 as stated: fetchAllPages requests the pages 1 .. N with
\* N = ceil(X-Total / X-Per-Page) (1 when a header is absent) and returns
\* their items in page order.
C25_PagesOneToCeilTotalOverPerPage ==
    (Paging /\ pc \in {"fetched", "done"} /\ failed = <<>>) =>
        /\ pager.requested = PageNumbers(StatedPageCount(pager.server))
        /\ allItems = PagesConcat(tool, pager.server, StatedPageCount(pager.server))

\* N with the first page always requested
RequiredPageCount(server) ==
    IF StatedPageCount(server) < 1 THEN 1 ELSE StatedPageCount(server)

\* C25, amended: fetchAllPages requests the pages 1, 2, ..., N in that
\* order, one request at a time, where N = max(1, ceil(X-Total /
\* X-Per-Page)) (N = 1 when a pagination header is absent or X-Total is 0),
\* and returns the items of these pages in page order, every page once.
C25_PagesInOrderOnceEach ==
    Paging =>
        /\ pager.requested = PageNumbers(Len(pager.requested))
        /\ Len(pager.requested) <= RequiredPageCount(pager.server)
        /\ pc = "requesting" =>
              /\ Len(pager.requested) = pager.currentPage - 1
              /\ allItems = PagesConcat(tool, pager.server, Len(pager.requested))
        /\ pc = "awaiting" =>
              /\ Len(pager.requested) = pager.currentPage
              /\ allItems = PagesConcat(tool, pager.server, Len(pager.requested) - 1)
        /\ (pc \in {"fetched", "done"} /\ failed = <<>>) =>
              /\ pager.requested = PageNumbers(RequiredPageCount(pager.server))
              /\ allItems = PagesConcat(tool, pager.server,
                                        RequiredPageCount(pager.server))
              /\ pager.server.missing = "none" =>
                    allItems = [i \in 1 .. pager.server.total |-> ServerRecord(tool, i)]

\* Three pages of one record each were fetched
C25_Witness ==
    /\ Paging
    /\ pc = "fetched"
    /\ pager.server.total = 3
    /\ pager.server.perPage = 1
    /\ pager.requested = <<1, 2, 3>>
    /\ Len(allItems) = 3

\* C27: a call naming a tool that is not registered fails with the protocol
\* error 'Tool not found: <name>' and runs no handler; a call naming a
\* registered tool is answered with exactly one text content item whatever
\* the arguments and whatever the API does.
C27_KnownToolAlwaysAnswersText ==
    pc = "done" =>
        /\ tool \notin AVAILABLE_TOOLS =>
              /\ result.protocolError
              /\ result.message = "Tool not found: " \o tool
              /\ result.content = <<>>
              /\ params = NoParams
              /\ pager.requested = <<>>
        /\ tool \in AVAILABLE_TOOLS =>
              /\ ~result.protocolError
              /\ Len(result.content) = 1
              /\ result.content[1].type = "text"
              /\ result.content[1].text.kind \in {"validation", "empty", "summary", "error"}

\* get_user_presences without usable dates, answered with a text
C27_Witness ==
    /\ pc = "done"
    /\ tool = "get_user_presences"
    /\ params.startDate = NotIsoFormat
    /\ ~result.protocolError
    /\ result.content[1].text.kind = "validation"

\* A real calendar date in YYYY-MM-DD form
RealCalendarDate(d) ==
    /\ d # NotIsoFormat
    /\ d[2] \in 1 .. 12
    /\ d[3] >= 1
    /\ d[3] <= (IF d[2] \in {1, 3, 5, 7, 8, 10, 12} THEN 31
                ELSE IF d[2] \in {4, 6, 9, 11} THEN 30
                ELSE IF (d[1] % 4 = 0 /\ d[1] % 100 # 0) \/ d[1] % 400 = 0 THEN 29
                ELSE 28)

\* Both dates are real and the start is not after the end
RealRange(p) ==
    /\ RealCalendarDate(p.startDate)
    /\ RealCalendarDate(p.endDate)
    /\ ~DateLess(p.endDate, p.startDate)

\* C28: get_activities and get_user_presences answer a range that is not
\* valid (a date that is no real calendar date, or start after end) with
\* the 'Invalid date range' message without any API request; a request is
\* issued only, and always, for a valid range (equal dates included).
C28_ValidationPrecedesFetching ==
    tool \in {"get_activities", "get_user_presences"} =>
        /\ ~RealRange(params) =>
              /\ pc = "done"
              /\ pager.requested = <<>>
              /\ result.content[1].text.kind = "validation"
              /\ result.content[1].text.text
                    = "Invalid date range: Start date must be before or equal to end date."
        /\ pager.requested # <<>> => RealRange(params)
        /\ (RealRange(params) /\ pc = "done") => pager.requested # <<>>

\* A start date after the end date was answered without a request
C28_Witness ==
    /\ pc = "done"
    /\ tool = "get_activities"
    /\ params.startDate = <<2024, 2, 2>>
    /\ params.endDate = <<2024, 2, 1>>
    /\ pager.requested = <<>>
    /\ result.content[1].text.kind = "validation"

\* The text a date-range tool puts before the message of a caught Error
ErrorPrefix ==
    IF tool = "get_activities" THEN "Error retrieving activities: "
    ELSE "Error retrieving presences: "

\* C29: when the request of a page k fails, fetchAllPages fails with that
\* error, no further page is requested, and the tool answers with the error
\* text, never with a summary of the pages before k.
C29_PageFailureIsAllOrNothing ==
    (Paging /\ failed # <<>>) =>
        /\ Len(failed) = 1
        /\ pc \in {"threw", "done"}
        /\ pager.requested = PageNumbers(failed[1].page)
        /\ pc = "done" =>
              /\ result.content[1].text.kind = "error"
              /\ result.content[1].text.text
                    = ErrorPrefix \o RequiredErrorText(failed[1].outcome)

\* Page 1 delivered a record, page 2 failed, and the tool answered with the
\* error text
C29_Witness ==
    /\ Paging
    /\ pc = "done"
    /\ Len(failed) = 1
    /\ failed[1].page = 2
    /\ allItems # <<>>
    /\ result.content[1].text.kind = "error"

====
